---- MODULE Spec2Model ----
(***************************************************************************)
(* Ticket workflow of the issue-ticket backend: the ticket handlers of     *)
(* routers/tickets.py (create, update, resolve, approve, auto close), the  *)
(* agent handlers of routers/agents.py that change the agent table, and    *)
(* the clock.  One action per handler; a handler's commit, refresh and     *)
(* notification call are part of its action.                               *)
(*                                                                         *)
(* Time is counted in days, so that timedelta(days=1) is 1 and the three   *)
(* cases elapsed < 1 day, = 1 day, > 1 day are all distinct.               *)
(***************************************************************************)
EXTENDS Integers, Sequences, FiniteSets, TLC

\* ---------------------------------------------------------------- bounds
MaxTickets == 2
MaxAgents == 2
MaxTime == 2
MaxTasks == 1
MaxOps == 5
MaxProcs == 2
MaxChannels == 3
MaxEvents == 2

\* ------------------------------------------------------------- constants
\* timedelta(days=1), in days
Window == 1
\* SQL NULL in an integer column (agent_id) and in a timestamp column
NoAgent == 0
NoTime == -1

TicketIds == 1..MaxTickets
AgentIds == 1..MaxAgents

\* models.TicketStatus; "null" is SQL NULL, which the nullable column admits
TicketStatus == {"open", "in_progress", "assigned", "pending_customer", "closed"}
NullStatus == "null"

VARIABLES
    agents,     \* ids of the rows of table agents
    tickets,    \* rows of table tickets: id -> row
    now,        \* the clock (datetime.utcnow(), func.now())
    tasks,      \* BackgroundTasks added and not yet run: <<[id, armedAt]>>
    approved,   \* history: ids of the tickets some approve has closed
    last,       \* history: the last handler run, its input and its outcome
    nops,       \* history: the number of handler runs so far
    hasLoop,    \* environment: the handlers run on the event loop's thread
    conc,       \* requests that overlap on ticket 1: start row and processes
    hub         \* ws_manager.manager, the websockets and a broadcast under way

vars == <<agents, tickets, now, tasks, approved, last, nops, hasLoop, conc, hub>>

\* ------------------------------------------------------------ the tickets
\* models.Ticket, the columns the handlers read or write
Ticket(status, agent_id, updated_at, closed_at) ==
    [status |-> status, agent_id |-> agent_id,
     updated_at |-> updated_at, closed_at |-> closed_at]

\* db.query(Ticket).filter(Ticket.id == ticket_id).first()
Exists(id) == id \in DOMAIN tickets

\* onupdate=func.now(): a flush that found a changed column writes updated_at;
\* a row whose attributes all kept their values is not written at all
Flush(old, new) ==
    IF new = old THEN old ELSE [new EXCEPT !.updated_at = now]

\* ----------------------------------------------------------- assign_agent
\* func.count(Ticket.id) of the outer join on
\* (Ticket.agent_id == Agent.id) & (Ticket.status != closed): in SQL a NULL
\* status makes the condition NULL, so that such a row is not joined
ActiveTickets(a) ==
    Cardinality({i \in DOMAIN tickets :
                    /\ tickets[i].agent_id = a
                    /\ tickets[i].status # NullStatus
                    /\ tickets[i].status # "closed"})

\* order_by(count asc).first(): a row with the smallest count; the order of
\* rows with equal counts is whatever the storage engine produces
AnyAgent == agents

LeastLoaded == {a \in agents : \A b \in agents : ActiveTickets(a) <= ActiveTickets(b)}

\* ------------------------------------------------------ the history record
\* the count the specification calls the active-ticket count of an agent:
\* the tickets that reference it and whose status is other than closed
NonClosed(a) ==
    Cardinality({i \in DOMAIN tickets :
                    tickets[i].agent_id = a /\ tickets[i].status # "closed"})

\* what the last handler was called with and what it did: the row it found
\* (pre), the response code (0: no response, a background task), the event
\* it handed to manager.broadcast, the background tasks it added; for a task
\* that ran, the time since it was added; for a create, whether the agent
\* was left to assign_agent and the agents' loads at the call
Outcome(op, id, code, pre, emitted, armed, waited, auto) ==
    [op |-> op, id |-> id, code |-> code, pre |-> pre,
     emitted |-> emitted, armed |-> armed, waited |-> waited, auto |-> auto,
     load |-> IF auto THEN [a \in agents |-> NonClosed(a)] ELSE <<>>,
     explicit |-> NoAgent]

NoOp == [op |-> "none", id |-> 0, code |-> 0, pre |-> <<>>,
         emitted |-> <<>>, armed |-> 0, waited |-> 0, auto |-> FALSE,
         load |-> <<>>, explicit |-> NoAgent]

\* if not ticket: raise HTTPException(status_code=404, detail="Ticket not
\* found"), before any write
NotFoundAsSuccess(op, id) == Outcome(op, id, 200, <<>>, <<>>, 0, 0, FALSE)

NotFound(op, id) == Outcome(op, id, 404, <<>>, <<>>, 0, 0, FALSE)

Row(id) == IF Exists(id) THEN <<tickets[id]>> ELSE <<>>

\* asyncio.create_task(manager.broadcast(...)): needs a running event loop in
\* the calling thread and raises RuntimeError without one (a handler that the
\* framework runs in a worker thread has none)
CreateTaskTwice(event) == IF hasLoop THEN <<event, event>> ELSE <<>>

CreateTask(event) == IF hasLoop THEN <<event>> ELSE <<>>

\* the agents are registered, no ticket has been filed; the handlers run
\* either all on the event loop's thread or all in worker threads
Init ==
    /\ agents = AgentIds
    /\ tickets = <<>>
    /\ now = 0
    /\ tasks = <<>>
    /\ approved = {}
    /\ last = NoOp
    /\ nops = 0
    /\ hasLoop \in BOOLEAN
    /\ conc = <<>>
    /\ hub = <<>>

\* -------------------------------------------------------------- the clock
\* a day passes.  The framework runs the background tasks of a request as soon
\* as the response is sent, so that no day passes while a task is waiting
Tick ==
    /\ now < MaxTime
    /\ tasks = <<>>
    /\ now' = now + 1
    /\ UNCHANGED <<agents, tickets, tasks, approved, last, nops, hasLoop, conc, hub>>

\* ---------------------------------------------------------- create_ticket
\* explicit: ticket.agent_id of the draft, NoAgent when it is absent
\* agent_id = ticket.agent_id or assign_agent(db): the agents the new ticket
\* can be given
ChosenAgentsByPolicy(explicit) == LeastLoaded

ChosenAgents(explicit) == IF explicit # NoAgent THEN {explicit} ELSE LeastLoaded

CreateTicket(explicit) ==
    IF explicit = NoAgent /\ agents = {}
    THEN \* assign_agent raises HTTPException(400)
         /\ last' = [Outcome("create", 0, 400, <<>>, <<>>, 0, 0, TRUE)
                        EXCEPT !.explicit = explicit]
         /\ UNCHANGED <<agents, tickets, now, tasks, approved>>
    ELSE IF explicit # NoAgent /\ explicit \notin agents
    THEN \* the foreign key agents.id rejects the insert at commit
         /\ last' = [Outcome("create", 0, 500, <<>>, <<>>, 0, 0, FALSE)
                        EXCEPT !.explicit = explicit]
         /\ UNCHANGED <<agents, tickets, now, tasks, approved>>
    ELSE /\ Len(tickets) < MaxTickets
         /\ \E agent_id \in ChosenAgents(explicit) :
               tickets' = Append(tickets, Ticket("assigned", agent_id, now, NoTime))
         /\ last' = [Outcome("create", Len(tickets) + 1,
                             IF hasLoop THEN 201 ELSE 500, <<>>,
                             CreateTask("ticket.created"),
                             0, 0, explicit = NoAgent)
                        EXCEPT !.explicit = explicit]
         /\ UNCHANGED <<agents, now, tasks, approved>>

\* ---------------------------------------------------------- update_ticket
\* schemas.TicketUpdate: every field is optional; Unset marks a field that the
\* request does not carry (dict(exclude_unset=True) leaves it out), while a
\* field sent as null is carried and written as NULL
Unset == "unset"
UnsetAgent == -2
Patches ==
    {p \in [status : TicketStatus \cup {NullStatus, Unset},
             agent_id : AgentIds \cup {NoAgent, UnsetAgent}] :
        p.status = Unset \/ p.agent_id = UnsetAgent}

\* for key, value in ticket.dict(exclude_unset=True).items(): setattr(...)
ApplyPatch(row, patch) ==
    [row EXCEPT
        !.status = IF patch.status = Unset THEN @ ELSE patch.status,
        !.agent_id = IF patch.agent_id = UnsetAgent THEN @ ELSE patch.agent_id]

UpdateTicket(id, patch) ==
    IF ~Exists(id)
    THEN /\ last' = NotFound("update", id)
         /\ UNCHANGED <<agents, tickets, now, tasks, approved>>
    ELSE LET new == ApplyPatch(tickets[id], patch) IN
         IF new.agent_id # NoAgent /\ new.agent_id \notin agents
         THEN \* the foreign key agents.id rejects the update at commit
              /\ last' = Outcome("update", id, 500, Row(id), <<>>, 0, 0, FALSE)
              /\ UNCHANGED <<agents, tickets, now, tasks, approved>>
         ELSE /\ tickets' = [tickets EXCEPT ![id] = Flush(@, new)]
              \* a NULL status does not serialise as TicketResponse
              /\ last' = Outcome("update", id,
                                 IF hasLoop /\ new.status # NullStatus THEN 200 ELSE 500,
                                 Row(id), CreateTask("ticket.updated"),
                                 0, 0, FALSE)
              /\ UNCHANGED <<agents, now, tasks, approved>>

\* --------------------------------------------------------- resolve_ticket
ResolveRejectsPending(status) == status = "pending_customer"

ResolveRejects(status) == status = "closed"

ResolveTicket(id) ==
    IF ~Exists(id)
    THEN /\ last' = NotFound("resolve", id)
         /\ UNCHANGED <<agents, tickets, now, tasks, approved>>
    ELSE IF ResolveRejects(tickets[id].status)
    THEN /\ last' = Outcome("resolve", id, 400, Row(id), <<>>, 0, 0, FALSE)
         /\ UNCHANGED <<agents, tickets, now, tasks, approved>>
    ELSE /\ tickets' = [tickets EXCEPT
                          ![id] = Flush(@, [@ EXCEPT !.status = "pending_customer"])]
         /\ IF hasLoop
            THEN \* background_tasks.add_task(auto_close_ticket, ticket_id)
                 /\ Len(tasks) < MaxTasks
                 /\ tasks' = Append(tasks, [id |-> id, armedAt |-> now])
                 /\ last' = Outcome("resolve", id, 200, Row(id),
                                    <<"ticket.pending_customer">>, 1, 0, FALSE)
            ELSE \* create_task raised before add_task was reached
                 /\ tasks' = tasks
                 /\ last' = Outcome("resolve", id, 500, Row(id), <<>>, 0, 0, FALSE)
         /\ UNCHANGED <<agents, now, approved>>

\* --------------------------------------------------------- approve_ticket
ApproveRejectsClosed(status) == status = "closed"

ApproveRejects(status) == status # "pending_customer"

ApproveTicket(id) ==
    IF ~Exists(id)
    THEN /\ last' = NotFound("approve", id)
         /\ UNCHANGED <<agents, tickets, now, tasks, approved>>
    ELSE IF ApproveRejects(tickets[id].status)
    THEN /\ last' = Outcome("approve", id, 400, Row(id), <<>>, 0, 0, FALSE)
         /\ UNCHANGED <<agents, tickets, now, tasks, approved>>
    ELSE /\ tickets' = [tickets EXCEPT
                          ![id] = Flush(@, [@ EXCEPT !.status = "closed",
                                                     !.closed_at = now])]
         /\ approved' = approved \cup {id}
         /\ last' = Outcome("approve", id, IF hasLoop THEN 204 ELSE 500, Row(id),
                            CreateTask("ticket.closed"), 0, 0, FALSE)
         /\ UNCHANGED <<agents, now, tasks>>

\* ------------------------------------------------------ auto_close_ticket
\* (datetime.utcnow() - ticket.updated_at) > timedelta(days=1)
Expired(row) == now - row.updated_at > Window

\* if ticket and ticket.status == TicketStatus.pending_customer: if (...) > ...
AutoClosesAnyStatus(row) == Expired(row)

AutoCloses(row) == row.status = "pending_customer" /\ Expired(row)

\* a background task runs once, after the handler that added it has answered,
\* in a worker thread; nothing in the code delays it.
\* asyncio.run(manager.broadcast(...)) starts an event loop of its own there
RemoveAt(s, k) == SubSeq(s, 1, k - 1) \o SubSeq(s, k + 1, Len(s))

AutoCloseTicket(k) ==
    /\ k \in 1..Len(tasks)
    /\ LET id == tasks[k].id
           closes == Exists(id) /\ AutoCloses(tickets[id])
       IN /\ tasks' = RemoveAt(tasks, k)
          /\ tickets' = IF closes
                        THEN [tickets EXCEPT
                                ![id] = Flush(@, [@ EXCEPT !.status = "closed",
                                                           !.closed_at = now])]
                        ELSE tickets
          /\ last' = Outcome("autoCloseCheck", id, 0, Row(id),
                             IF closes THEN <<"ticket.autoclosed">> ELSE <<>>,
                             0, now - tasks[k].armedAt, FALSE)
          /\ UNCHANGED <<agents, now, approved>>

\* ------------------------------------------------------------- the agents
\* agents.create_agent (the email check is on data the model leaves out)
CreateAgent(a) ==
    /\ a \notin agents
    /\ agents' = agents \cup {a}
    /\ last' = Outcome("createAgent", a, 201, <<>>, <<"agent.created">>, 0, 0, FALSE)
    /\ UNCHANGED <<tickets, now, tasks, approved>>

\* agents.delete_agent: db.delete(agent) first detaches the agent's tickets,
\* an UPDATE of each of them that sets agent_id to NULL
DeleteAgent(a) ==
    IF a \notin agents
    THEN /\ last' = Outcome("deleteAgent", a, 404, <<>>, <<>>, 0, 0, FALSE)
         /\ UNCHANGED <<agents, tickets, now, tasks, approved>>
    ELSE /\ agents' = agents \ {a}
         /\ tickets' = [i \in DOMAIN tickets |->
                          IF tickets[i].agent_id = a
                          THEN Flush(tickets[i], [tickets[i] EXCEPT !.agent_id = NoAgent])
                          ELSE tickets[i]]
         /\ last' = Outcome("deleteAgent", a, 204, <<>>, <<"agent.deleted">>, 0, 0, FALSE)
         /\ UNCHANGED <<now, tasks, approved>>

\* a request handler run; the requests of one behaviour are counted
Handler ==
    \/ \E explicit \in AgentIds \cup {NoAgent} : CreateTicket(explicit)
    \/ \E id \in TicketIds, patch \in Patches : UpdateTicket(id, patch)
    \/ \E id \in TicketIds : ResolveTicket(id)
    \/ \E id \in TicketIds : ApproveTicket(id)
    \/ \E a \in AgentIds : CreateAgent(a)
    \/ \E a \in AgentIds : DeleteAgent(a)

Request ==
    /\ nops < MaxOps
    /\ nops' = nops + 1
    /\ hasLoop' = hasLoop
    /\ conc' = conc
    /\ hub' = hub
    /\ Handler

\* a background task that was added runs without a request
RunTask ==
    /\ \E k \in 1..MaxTasks : AutoCloseTicket(k)
    /\ UNCHANGED <<nops, hasLoop, conc, hub>>

Next ==
    \/ Tick
    \/ Request
    \/ RunTask

Spec == Init /\ [][Next]_vars

\* the clock advances and an added background task is run
FairSpec == Spec /\ WF_vars(Tick) /\ WF_vars(RunTask)

\* ------------------------------------------------- requests that overlap
\* The handlers run in worker threads, each with a session of its own: a
\* handler first loads the row (db.query(...).first()), decides on the loaded
\* attributes and then commits.  The commit is an UPDATE of the attributes
\* that differ from the loaded ones, applied to the row as it is stored by
\* then; no handler locks the row or compares a version.
ConcOps == {"update", "resolve", "approve", "autoCloseCheck"}
NoPatch == [status |-> Unset, agent_id |-> UnsetAgent]

\* the requests that can be made of one ticket
Calls ==
    {c \in [op : ConcOps, patch : Patches] : c.op # "update" => c.patch = NoPatch}

\* the rows a ticket can have at time MaxTime
StartRows ==
    {r \in [status : TicketStatus \cup {NullStatus}, agent_id : {1},
            updated_at : 0..MaxTime, closed_at : {NoTime} \cup 0..MaxTime] :
        r.closed_at <= r.updated_at}

\* the UPDATE of a commit: the attributes that the handler changed on the
\* object it loaded, and updated_at
Written(seen, new, cur) ==
    IF new = seen
    THEN cur
    ELSE [status |-> IF new.status # seen.status THEN new.status ELSE cur.status,
          agent_id |-> IF new.agent_id # seen.agent_id THEN new.agent_id ELSE cur.agent_id,
          closed_at |-> IF new.closed_at # seen.closed_at THEN new.closed_at ELSE cur.closed_at,
          updated_at |-> now]

Closed(row) == [row EXCEPT !.status = "closed", !.closed_at = now]

\* what a handler that loaded seen does to the stored row cur, and its answer
Effect(c, seen, cur) ==
    CASE c.op = "update" ->
            LET row == Written(seen, ApplyPatch(seen, c.patch), cur) IN
            [row |-> row,
             code |-> IF hasLoop /\ row.status # NullStatus THEN 200 ELSE 500,
             emitted |-> CreateTask("ticket.updated")]
      [] c.op = "resolve" ->
            IF ResolveRejects(seen.status)
            THEN [row |-> cur, code |-> 400, emitted |-> <<>>]
            ELSE LET row == Written(seen, [seen EXCEPT !.status = "pending_customer"], cur) IN
                 [row |-> row,
                  code |-> IF hasLoop /\ row.status # NullStatus THEN 200 ELSE 500,
                  emitted |-> CreateTask("ticket.pending_customer")]
      [] c.op = "approve" ->
            IF ApproveRejects(seen.status)
            THEN [row |-> cur, code |-> 400, emitted |-> <<>>]
            ELSE [row |-> Written(seen, Closed(seen), cur),
                  code |-> IF hasLoop THEN 204 ELSE 500,
                  emitted |-> CreateTask("ticket.closed")]
      [] c.op = "autoCloseCheck" ->
            IF AutoCloses(seen)
            THEN [row |-> Written(seen, Closed(seen), cur), code |-> 0,
                  emitted |-> <<"ticket.autoclosed">>]
            ELSE [row |-> cur, code |-> 0, emitted |-> <<>>]

Procs == 1..MaxProcs

ConcInit ==
    /\ agents = AgentIds
    /\ now = MaxTime
    /\ tasks = <<>>
    /\ approved = {}
    /\ last = NoOp
    /\ nops = 0
    /\ hasLoop \in BOOLEAN
    /\ hub = <<>>
    /\ \E row \in StartRows, calls \in [Procs -> Calls] :
          \* a check exists only where resolve_ticket got to add_task
          /\ hasLoop \/ \A p \in Procs : calls[p].op # "autoCloseCheck"
          /\ tickets = <<row>>
          /\ conc = [start |-> row,
                     proc |-> [p \in Procs |->
                                 [call |-> calls[p], pc |-> "start", seen |-> <<>>,
                                  code |-> 0, emitted |-> <<>>]]]

\* ticket = db.query(Ticket).filter(Ticket.id == ticket_id).first()
Load(p) ==
    /\ conc.proc[p].pc = "start"
    /\ conc' = [conc EXCEPT !.proc[p].pc = "loaded", !.proc[p].seen = <<tickets[1]>>]
    /\ UNCHANGED <<agents, tickets, now, tasks, approved, last, nops, hasLoop, hub>>

\* the checks on the loaded row, the assignments, db.commit() and the answer
Commit(p) ==
    /\ conc.proc[p].pc = "loaded"
    /\ LET e == Effect(conc.proc[p].call, conc.proc[p].seen[1], tickets[1]) IN
          /\ tickets' = <<e.row>>
          /\ conc' = [conc EXCEPT !.proc[p].pc = "done",
                                  !.proc[p].code = e.code,
                                  !.proc[p].emitted = e.emitted]
    /\ UNCHANGED <<agents, now, tasks, approved, last, nops, hasLoop, hub>>

ConcNext == \E p \in Procs : Load(p) \/ Commit(p)

ConcSpec == ConcInit /\ [][ConcNext]_vars

\* ------------------------------------------------------- ConnectionManager
\* active_connections is a dict: its entries keep the order of insertion, an
\* assignment to a key it holds replaces the value in place, a del leaves a
\* hole (val = 0), and an iterator raises RuntimeError when the number of keys
\* differs from the number at its creation.  With at most MaxChannels
\* insertions the dict is never resized.
Channels == 1..MaxChannels

\* the position of key a in the entries, 0 when the dict does not hold it
Lookup(a) ==
    LET at == {i \in 1..Len(hub.entries) :
                  hub.entries[i].key = a /\ hub.entries[i].val # 0}
    IN IF at = {} THEN 0 ELSE CHOOSE i \in at : TRUE

\* the websockets the dict holds
Registered == {hub.entries[i].val : i \in 1..Len(hub.entries)} \ {0}

Idle == [state |-> "idle", pos |-> 0, used |-> 0, event |-> 0, before |-> {}]

HubInit ==
    /\ agents = AgentIds
    /\ tickets = <<>>
    /\ now = 0
    /\ tasks = <<>>
    /\ approved = {}
    /\ last = NoOp
    /\ nops = 0
    /\ hasLoop = TRUE
    /\ conc = <<>>
    /\ hub = [entries |-> <<>>, used |-> 0,
              chan |-> [c \in Channels |-> [agent |-> NoAgent, state |-> "new", got |-> {}]],
              bc |-> Idle, sent |-> 0]

HubUnchanged ==
    UNCHANGED <<agents, tickets, now, tasks, approved, last, nops, hasLoop, conc>>

\* main.websocket_endpoint up to its loop: manager.connect(agent_id, websocket)
Connect(c, a) ==
    /\ hub.chan[c].state = "new"
    /\ hub' = [hub EXCEPT
                 !.chan[c] = [agent |-> a, state |-> "open", got |-> {}],
                 !.entries = IF Lookup(a) # 0
                             THEN [@ EXCEPT ![Lookup(a)].val = c]
                             ELSE Append(@, [key |-> a, val |-> c]),
                 !.used = IF Lookup(a) # 0 THEN @ ELSE @ + 1]
    /\ HubUnchanged

\* the transport of an open websocket ends: the client has gone
Drop(c) ==
    /\ hub.chan[c].state = "open"
    /\ hub' = [hub EXCEPT !.chan[c].state = "closed"]
    /\ HubUnchanged

\* main.websocket_endpoint: receive_text raises WebSocketDisconnect and the
\* handler calls manager.disconnect(agent_id)
Disconnect(c) ==
    /\ hub.chan[c].state = "closed"
    /\ LET i == Lookup(hub.chan[c].agent) IN
       hub' = [hub EXCEPT
                 !.chan[c].state = "ended",
                 !.entries = IF i # 0 THEN [@ EXCEPT ![i].val = 0] ELSE @,
                 !.used = IF i # 0 THEN @ - 1 ELSE @]
    /\ HubUnchanged

\* one round of the loop of manager.broadcast on the state h: the iterator
\* yields the next websocket and send_json is called.  A send on a websocket
\* whose transport has ended raises, and nothing in broadcast catches an
\* exception
Round(h) ==
    LET rest == {i \in h.bc.pos..Len(h.entries) : h.entries[i].val # 0}
        i == CHOOSE j \in rest : \A k \in rest : j <= k
        c == h.entries[i].val
    IN IF h.bc.used # h.used
       THEN [h EXCEPT !.bc.state = "raisedSize"]
       ELSE IF rest = {}
       THEN [h EXCEPT !.bc.state = "returned"]
       ELSE IF h.chan[c].state # "open"
       THEN [h EXCEPT !.bc.state = "raisedSend"]
       ELSE [h EXCEPT !.bc.pos = i + 1,
                      !.chan[c].got = @ \cup {h.bc.event}]

\* manager.broadcast is entered: the for statement creates the iterator of
\* active_connections.values() and the first round runs up to its await
StartBroadcast ==
    /\ hub.bc.state # "running"
    /\ hub.sent < MaxEvents
    /\ hub' = Round([hub EXCEPT
                 !.sent = @ + 1,
                 !.bc = [state |-> "running", pos |-> 1, used |-> hub.used,
                         event |-> hub.sent + 1, before |-> Registered]])
    /\ HubUnchanged

\* the awaited send_json completes and the next round runs; other coroutines
\* of the event loop ran while broadcast was suspended
SendNext ==
    /\ hub.bc.state = "running"
    /\ hub' = Round(hub)
    /\ HubUnchanged

HubNext ==
    \/ \E c \in Channels, a \in AgentIds : Connect(c, a)
    \/ \E c \in Channels : Drop(c)
    \/ \E c \in Channels : Disconnect(c)
    \/ StartBroadcast
    \/ SendNext

HubSpec == HubInit /\ [][HubNext]_vars

\* ------------------------------------------------- auto-assigned creates
\* some agents are registered, whichever, and none has a ticket
AssignInit ==
    /\ agents \in SUBSET AgentIds \ {{}}
    /\ tickets = <<>>
    /\ now = 0
    /\ tasks = <<>>
    /\ approved = {}
    /\ last = NoOp
    /\ nops = 0
    /\ hasLoop \in BOOLEAN
    /\ conc = <<>>
    /\ hub = <<>>

\* POST /tickets without agent_id, one request after another and nothing else
AutoCreate ==
    /\ nops < MaxOps
    /\ nops' = nops + 1
    /\ UNCHANGED <<hasLoop, conc, hub>>
    /\ CreateTicket(NoAgent)

AssignNext == Tick \/ AutoCreate

AssignSpec == AssignInit /\ [][AssignNext]_vars

\* -------------------------------------------------- overlapping creates
\* create_ticket requests without agent_id that run at once, each in its own
\* session: the query of assign_agent and the commit of the new row are two
\* steps, and a request does not see a row that another has not committed
OverlapInit ==
    /\ agents \in SUBSET AgentIds \ {{}}
    /\ tickets = <<>>
    /\ now \in 0..MaxTime
    /\ tasks = <<>>
    /\ approved = {}
    /\ last = NoOp
    /\ nops = 0
    /\ hasLoop \in BOOLEAN
    /\ hub = <<>>
    /\ conc = [creator |-> [p \in Procs |-> [pc |-> "start", agent_id |-> NoAgent]]]

\* agent_id = assign_agent(db)
Select(p) ==
    /\ conc.creator[p].pc = "start"
    /\ \E agent_id \in ChosenAgents(NoAgent) :
          conc' = [conc EXCEPT !.creator[p] = [pc |-> "selected", agent_id |-> agent_id]]
    /\ UNCHANGED <<agents, tickets, now, tasks, approved, last, nops, hasLoop, hub>>

\* db.add(db_ticket); db.commit()
Store(p) ==
    /\ conc.creator[p].pc = "selected"
    /\ tickets' = Append(tickets, Ticket("assigned", conc.creator[p].agent_id, now, NoTime))
    /\ conc' = [conc EXCEPT !.creator[p].pc = "done"]
    /\ UNCHANGED <<agents, now, tasks, approved, last, nops, hasLoop, hub>>

OverlapNext == \E p \in Procs : Select(p) \/ Store(p)

OverlapSpec == OverlapInit /\ [][OverlapNext]_vars

\* ================================================================ claims
\* the step is a run of handler op (a clock tick leaves last as it was)
Ran(op) == last'.op = op /\ (nops' # nops \/ tasks' # tasks)

\* C1: in every reachable state every ticket has closed_at set if and only
\* if its status is closed.
C1_ClosedAtIffClosed ==
    \A i \in DOMAIN tickets :
        (tickets[i].closed_at # NoTime) <=> (tickets[i].status = "closed")

\* the edges of the ticket state machine
Edges == {<<"assigned", "pending_customer">>,
          <<"in_progress", "pending_customer">>,
          <<"pending_customer", "closed">>}

\* C2: every change of a ticket's status, by any operation, follows an edge
\* of the state machine (so that a closed ticket never leaves closed), and a
\* ticket enters the table as assigned.
C2_StatusFollowsEdges ==
    [][/\ \A i \in DOMAIN tickets :
             \/ tickets'[i].status = tickets[i].status
             \/ <<tickets[i].status, tickets'[i].status>> \in Edges
       /\ \A i \in DOMAIN tickets' \ DOMAIN tickets :
             tickets'[i].status = "assigned"]_vars

\* the last handler run was a create that left the agent to assign_agent and
\* stored a ticket
AutoCreated == last.op = "create" /\ last.auto /\ last.id # 0

\* the agents whose active-ticket count was smallest when the create was called
Lightest == {a \in DOMAIN last.load : \A b \in DOMAIN last.load : last.load[a] <= last.load[b]}

\* C3: a create without an explicit agent, called when an agent exists,
\* assigns the ticket to an agent whose active-ticket count (the tickets that
\* reference it with a status other than closed) is minimal over all agents
\* at that moment.
C3_AssignsLeastLoaded ==
    AutoCreated => tickets[last.id].agent_id \in Lightest

\* C4: when several agents share the smallest active-ticket count, the
\* selection returns the one with the lowest agent id (and so the same agent
\* on every selection made on the same stored state).
C4_TieBreakLowestId ==
    AutoCreated => \A a \in Lightest : tickets[last.id].agent_id <= a

\* ticket i awaits the customer and its window has run out
Overdue(i) ==
    /\ Exists(i)
    /\ tickets[i].status = "pending_customer"
    /\ Expired(tickets[i])

\* no handler has run since a resolve of ticket i answered 200 or since the
\* check that this resolve armed
SinceResolve(i) ==
    /\ last.id = i
    /\ \/ last.op = "resolve" /\ last.code = 200
       \/ last.op = "autoCloseCheck"

\* C5: a ticket that stays in pending_customer, with no approve and no other
\* change, for longer than the 24-hour window after a resolve is eventually
\* closed by an auto-close check: it does not await the customer for ever.
C5_OverdueEventuallyClosed ==
    \A i \in TicketIds : (SinceResolve(i) /\ Overdue(i)) ~> ~Overdue(i)

\* C6: every successful resolve arms exactly one auto-close check for that
\* ticket, and that check is invoked no earlier than 24 hours after the
\* resolve.
C6_ResolveArmsOneDelayedCheck ==
    [][/\ (Ran("resolve") /\ last'.code = 200)
            => tasks' = Append(tasks, [id |-> last'.id, armedAt |-> now])
       /\ Ran("autoCloseCheck") => last'.waited >= Window]_vars

\* C7: a ticket that was approved is never afterwards modified or announced
\* as auto-closed by an auto-close check, however late or however often the
\* check fires: the check leaves its status and its closed_at as they are and
\* emits no ticket.autoclosed event for it.
C7_ApprovedNeverAutoClosed ==
    [][(Ran("autoCloseCheck") /\ last'.id \in approved)
            => (tickets' = tickets /\ last'.emitted = <<>>)]_vars

\* C8: resolve on a ticket whose status is closed fails with code 400 and
\* leaves every field of the ticket unchanged, emits no event and arms no
\* auto-close check.
C8_ResolveClosedRejected ==
    [][(Ran("resolve") /\ Exists(last'.id) /\ tickets[last'.id].status = "closed")
            => /\ last'.code = 400
               /\ tickets' = tickets
               /\ tasks' = tasks
               /\ last'.emitted = <<>>]_vars

\* a resolve has been called on a closed ticket
C8_Witness ==
    /\ last.op = "resolve"
    /\ last.pre # <<>>
    /\ last.pre[1].status = "closed"
    /\ last.code = 400

\* C9: approve on a ticket whose status is anything other than
\* pending_customer fails with code 400 and leaves the ticket unchanged,
\* closed_at included, and emits no event.
C9_ApproveNotPendingRejected ==
    [][(Ran("approve") /\ Exists(last'.id)
                       /\ tickets[last'.id].status # "pending_customer")
            => /\ last'.code = 400
               /\ tickets' = tickets
               /\ approved' = approved
               /\ last'.emitted = <<>>]_vars

\* an approve has been called on an open, on an assigned, on an in_progress
\* or on a closed ticket
C9_Witness ==
    /\ last.op = "approve"
    /\ last.pre # <<>>
    /\ last.pre[1].status \in {"open", "assigned", "in_progress", "closed"}
    /\ last.code = 400

\* C10: a resolve on a ticket whose status is neither assigned nor
\* in_progress does not change the ticket, does not emit
\* ticket.pending_customer and does not arm an auto-close check.
C10_ResolveOnlyFromAssignedOrInProgress ==
    [][(Ran("resolve") /\ Exists(last'.id)
                       /\ tickets[last'.id].status \notin {"assigned", "in_progress"})
            => /\ tickets' = tickets
               /\ tasks' = tasks
               /\ last'.emitted = <<>>]_vars

\* C11: an auto-close check closes the ticket (status closed, closed_at set,
\* ticket.autoclosed emitted) exactly when the ticket exists, its status is
\* pending_customer and the time elapsed since updated_at is not below the
\* 24-hour threshold (an elapsed time equal to the threshold included); in
\* every other case it changes nothing and emits nothing.
C11_AutoCloseExactlyWhenDue ==
    [][Ran("autoCloseCheck")
        => LET id == last'.id IN
           IF /\ Exists(id)
              /\ tickets[id].status = "pending_customer"
              /\ now - tickets[id].updated_at >= Window
           THEN /\ tickets'[id].status = "closed"
                /\ tickets'[id].closed_at = now
                /\ last'.emitted = <<"ticket.autoclosed">>
           ELSE /\ tickets' = tickets
                /\ last'.emitted = <<>>]_vars

\* process p commits an auto-close check in this step
CheckCommits(p) ==
    /\ conc # <<>>
    /\ conc.proc[p].call.op = "autoCloseCheck"
    /\ conc.proc[p].pc = "loaded"
    /\ conc'.proc[p].pc = "done"

\* C12: an auto-close check is idempotent on closed tickets: invoked any
\* number of times on a ticket that is already closed, it emits no event and
\* changes neither status nor closed_at (nor anything else of the row).
C12_CheckIdempotentOnClosed ==
    [][\A p \in Procs :
          (CheckCommits(p) /\ conc.proc[p].seen[1].status = "closed")
              => (tickets' = tickets /\ conc'.proc[p].emitted = <<>>)]_vars

\* a check has run on a ticket that was closed more than a day before
C12_Witness ==
    /\ conc # <<>>
    /\ \E p \in Procs :
          /\ conc.proc[p].call.op = "autoCloseCheck"
          /\ conc.proc[p].pc = "done"
          /\ conc.proc[p].seen[1].status = "closed"
          /\ Expired(conc.proc[p].seen[1])

\* every overlapping request has answered
AllDone == conc # <<>> /\ \A p \in Procs : conc.proc[p].pc = "done"

\* the orders in which the requests can run one after another
Orders == {o \in [Procs -> Procs] : \A p, q \in Procs : o[p] = o[q] => p = q}

\* the requests run one at a time in order o, from its k-th on, on row: the
\* stored row is the one the running request has loaded
RECURSIVE OneByOne(_, _, _)
OneByOne(o, k, row) ==
    IF k > MaxProcs
    THEN row = tickets[1]
    ELSE LET e == Effect(conc.proc[o[k]].call, row, row) IN
         /\ e.code = conc.proc[o[k]].code
         /\ e.emitted = conc.proc[o[k]].emitted
         /\ OneByOne(o, k + 1, e.row)

\* C13: requests that overlap on one ticket are linearized: for every
\* interleaving of their read and write steps the final row and every
\* request's answer are those of the same requests run one after another in
\* some order.
C13_Linearized ==
    AllDone => \E o \in Orders : OneByOne(o, 1, conc.start)

\* a broadcast has ended, by returning or by raising
BroadcastOver == hub # <<>> /\ hub.bc.state \in {"returned", "raisedSize", "raisedSend"}

\* C14: during a broadcast, a delivery failure or the closing of one
\* recipient channel does not stop the delivery of the event to the remaining
\* connected channels and is not raised to the caller of broadcast.
C14_DeliveryFailureIsolated ==
    (BroadcastOver /\ hub.bc.state # "raisedSize")
        => /\ hub.bc.state = "returned"
           /\ \A c \in hub.bc.before \cap Registered :
                 hub.chan[c].state = "open" => hub.bc.event \in hub.chan[c].got

\* C15: a broadcast works on a snapshot of the registry taken at the call:
\* the event is delivered to every channel that was connected before the
\* call (and is open) and to no channel connected after it, also when
\* connect or disconnect calls run while the broadcast is suspended.
C15_BroadcastSnapshot ==
    (BroadcastOver /\ hub.bc.state # "raisedSend")
        => \A c \in Channels :
              /\ hub.bc.event \in hub.chan[c].got => c \in hub.bc.before
              /\ (c \in hub.bc.before /\ hub.chan[c].state = "open")
                    => hub.bc.event \in hub.chan[c].got

\* the operations on tickets that a request carries
TicketOps == {"create", "update", "resolve", "approve"}

Success == {200, 201, 204}

\* C16: a failure while emitting a notification never changes the outcome
\* of the ticket operation that triggered it: a create, update, resolve or
\* approve whose mutation was committed and whose event was not emitted still
\* reports success.
C16_NotificationFailureKeepsOutcome ==
    [][ ((\E op \in TicketOps : Ran(op)) /\ tickets' # tickets /\ last'.emitted = <<>>)
            => last'.code \in Success ]_vars

\* C17: create without an explicit agent when the agent set is empty fails
\* with HTTP 400, stores no ticket and emits no event; create with an
\* explicit agent does not consult the assignment policy and stores exactly
\* the supplied agent.
C17_CreateAgentChoice ==
    [][ Ran("create")
          => /\ (last'.explicit = NoAgent /\ agents = {})
                   => /\ last'.code = 400
                      /\ tickets' = tickets
                      /\ tasks' = tasks
                      /\ last'.emitted = <<>>
             /\ (last'.explicit # NoAgent)
                   => /\ ~last'.auto
                      /\ tickets' # tickets
                            => /\ Len(tickets') = Len(tickets) + 1
                               /\ tickets'[Len(tickets')].agent_id = last'.explicit ]_vars

C17_Witness ==
    /\ last.op = "create"
    /\ last.explicit = NoAgent
    /\ agents = {}
    /\ last.code = 400
    /\ tickets # <<>>

\* C18: every ticket has agent_id set, except tickets whose agent was removed
\* afterwards: agent_id becomes empty only by the removal of that agent, and
\* the removal changes nothing else of the agent's tickets and nothing of the
\* other tickets.
C18_AgentSetUnlessRemoved ==
    [][ /\ \A i \in DOMAIN tickets' :
              (tickets'[i].agent_id = NoAgent
                  /\ (i \in DOMAIN tickets => tickets[i].agent_id # NoAgent))
                 => /\ Ran("deleteAgent")
                    /\ i \in DOMAIN tickets
                    /\ last'.id = tickets[i].agent_id
        /\ (Ran("deleteAgent") /\ last'.code = 204)
              => tickets' = [i \in DOMAIN tickets |->
                               IF tickets[i].agent_id = last'.id
                               THEN [tickets[i] EXCEPT !.agent_id = NoAgent]
                               ELSE tickets[i]] ]_vars

\* the event type of each operation
EventOf(op) ==
    CASE op = "create" -> "ticket.created"
      [] op = "update" -> "ticket.updated"
      [] op = "resolve" -> "ticket.pending_customer"
      [] op = "approve" -> "ticket.closed"
      [] op = "autoCloseCheck" -> "ticket.autoclosed"

\* C19: each successful operation emits exactly one event, of its own type
\* (an auto-close succeeds when it closes the ticket), and an operation that
\* fails with NotFound, InvalidTransition or NoAvailableAgent emits none.
C19_OneEventPerSuccess ==
    [][ \A op \in TicketOps \cup {"autoCloseCheck"} :
          Ran(op)
            => /\ (IF op = "autoCloseCheck" THEN tickets' # tickets
                                            ELSE last'.code \in Success)
                   => last'.emitted = <<EventOf(op)>>
               /\ last'.code \in {400, 404} => last'.emitted = <<>> ]_vars

C19_Witness ==
    /\ last.op = "approve"
    /\ last.code = 204
    /\ last.emitted = <<"ticket.closed">>
    /\ tickets[last.id].status = "closed"

\* C20: update, resolve and approve on a ticket id that does not exist fail
\* with HTTP 404 and leave the tickets, the scheduled checks and the events
\* unchanged.
C20_MissingTicketNotFound ==
    [][ \A op \in {"update", "resolve", "approve"} :
          (Ran(op) /\ ~Exists(last'.id))
            => /\ last'.code = 404
               /\ tickets' = tickets
               /\ tasks' = tasks
               /\ approved' = approved
               /\ last'.emitted = <<>> ]_vars

C20_Witness ==
    /\ last.op \in {"update", "resolve", "approve"}
    /\ ~Exists(last.id)
    /\ last.code = 404
    /\ tickets # <<>>

\* C21: when an agent connects again while its first session is open, the
\* registry maps the agent to the newer channel, and the end of the older
\* session does not unregister the newer one: a channel leaves the registry
\* only when its own session ends or when a newer channel of the same agent
\* takes its place.
C21_NewerChannelStaysRegistered ==
    [][ \A c \in Registered :
          c \notin Registered'
            => \/ hub'.chan[c].state = "ended"
               \/ \E d \in Registered' \ Registered :
                     hub'.chan[d].agent = hub.chan[c].agent ]_vars

\* the request of p has closed the ticket and said so: an approve answered
\* 204, a check that found the ticket due
ClosedBy(p) ==
    /\ conc.proc[p].pc = "done"
    /\ \/ conc.proc[p].call.op = "approve" /\ conc.proc[p].code = 204
       \/ conc.proc[p].call.op = "autoCloseCheck" /\ conc.proc[p].emitted # <<>>

\* C22: for each ticket at most one closing takes effect: under any
\* interleaving of approve calls and auto-close checks on the same ticket, at
\* most one of them closes it (writes closed_at, emits its event).
C22_AtMostOneClosing ==
    (conc # <<>> /\ \A p \in Procs : conc.proc[p].call.op \in {"approve", "autoCloseCheck"})
        => Cardinality({p \in Procs : ClosedBy(p)}) <= 1

\* C23: from a fixed, non-empty agent set with no active ticket, after any
\* sequence of creates without an explicit agent that run one after another,
\* and nothing else, the active-ticket counts of any two agents differ by at
\* most one.
C23_SequentialCreatesBalanced ==
    \A a, b \in agents : NonClosed(a) - NonClosed(b) <= 1

C23_Witness ==
    /\ Len(tickets) >= 2
    /\ last.op = "create"
    /\ last.auto
    /\ \A a, b \in agents : NonClosed(a) - NonClosed(b) <= 1

\* C24: the balance of auto-assignment also holds when creates overlap: for
\* every interleaving of the select step and the store step of creates
\* without an explicit agent, once all of them have finished the
\* active-ticket counts of any two agents differ by at most one.
C24_OverlappingCreatesBalanced ==
    (\A p \in Procs : conc.creator[p].pc = "done")
        => \A a, b \in agents : NonClosed(a) - NonClosed(b) <= 1

====
